---- MODULE Spec2Model ----
(***************************************************************************)
(* A model of linkplay-cli's device transport layer: the TCP-UART binary   *)
(* codec and channel (tcp_uart.py), the HTTP GET channel (utils.py), and   *)
(* start-up, discovery and the device registry (cli.py, discovery.py,      *)
(* configure.py, device.py, config.py).                                    *)
(***************************************************************************)
EXTENDS Integers, Sequences, FiniteSets, TLC

VARIABLES
    \* --- binary channel (tcp_uart.py) ---
    cpc,        \* position inside TcpUart.run_command
    command,    \* the str passed to run_command
    built,      \* result of TCP_UART_MESSAGE_STRUCT.build
    reply_kind, \* what the peer answered: "echo", "flip" or "reply"
    wire,       \* the bytes the peer sent back
    received,   \* what socket.recv returned
    parsed,     \* result of TCP_UART_MESSAGE_STRUCT.parse
    result,     \* how run_command ended
    \* --- HTTP channel (utils.py) ---
    hpc,          \* "idle" before perform_get_request is called, "done" after
    response,     \* what requests.get produced: an exception or a response
    expect_json,  \* perform_get_request's expect_json
    expect_bytes, \* perform_get_request's expect_bytes
    hresult,      \* how perform_get_request ended
    \* --- start-up, discovery and the registry (cli.py, discovery.py, configure.py) ---
    file,             \* the registry file at config.configuration_file_path
    net,              \* how each (address, protocol, port) answers getStatusEx
    found,            \* the hosts of the locations async_search reports, in order
    mode,             \* "cli" for LinkplayCli.__init__, "rediscover" for main's branch
    dpc,              \* "start", "searching", "ready" or "raised"
    configuration,    \* what load_configuration_from_file returned
    device,           \* self._device
    linkplay_devices, \* the list discover_linkplay_devices fills
    next_response,    \* index in found of the next response to handle
    probes,           \* the status probes issued in this invocation, in order
    task_errors,      \* exceptions that ended a callback task
    exc,              \* the exception that ended the invocation
    searched,         \* whether async_search was started in this invocation
    file_before,      \* the registry file when the invocation began
    user_input,       \* what the user typed at the prompt
    \* --- the registry functions called on their own (configure.py) ---
    rpc,            \* position inside prompt_user_to_choose_active_device,
                    \* save_configuration_to_file or load_configuration_from_file
    prompt_devices, \* the devices argument of prompt_user_to_choose_active_device
    choice_index,   \* choice_index of lines 37 and 47
    rresult,        \* how the call ended
    file_at_call,   \* the registry file when the call began
    \* --- the lifetime of a TcpUart and the waits on the network ---
    tpc,          \* where the TcpUart is in its lifetime
    attr_socket,  \* whether self._socket has been assigned
    sock,         \* the TCP socket: "none", "open", "shut" or "closed"
    link,         \* the connection as the peer left it: "up" or "reset"
    texc,         \* the exception __init__ or run_command raised
    del_exc,      \* the exception raised inside __del__
    commands_run, \* the number of run_command calls so far
    gpc,          \* where a requests.get of perform_get_request is
    \* --- the UPnP channel (upnp.py) ---
    upc,           \* "idle" before a call, "done" after Upnp.get_player_status,
                   \* "emoji" after player_status_string_to_emoji
    info,          \* what the GetInfoEx action returned
    player_status  \* how get_player_status ended

codec_vars == <<cpc, command, built, reply_kind, wire, received, parsed, result>>

http_vars == <<hpc, response, expect_json, expect_bytes, hresult>>

disc_vars ==
    <<file, net, found, mode, dpc, configuration, device, linkplay_devices,
      next_response, probes, task_errors, exc, searched, file_before, user_input>>

registry_vars == <<rpc, prompt_devices, choice_index, rresult, file_at_call>>

channel_vars == <<tpc, attr_socket, sock, link, texc, del_exc, commands_run, gpc>>

upnp_vars == <<upc, info, player_status>>

vars == <<codec_vars, http_vars, disc_vars, registry_vars, channel_vars, upnp_vars>>

not_channel_vars == <<codec_vars, http_vars, disc_vars, registry_vars, upnp_vars>>

not_upnp_vars == <<codec_vars, http_vars, disc_vars, registry_vars, channel_vars>>

\* what each part of the program leaves alone
not_codec_vars == <<http_vars, disc_vars, registry_vars, channel_vars, upnp_vars>>

not_http_vars == <<codec_vars, disc_vars, registry_vars, channel_vars, upnp_vars>>

not_disc_vars == <<codec_vars, http_vars, registry_vars, channel_vars, upnp_vars>>

\* the registry functions touch the file and nothing else of start-up
not_registry_vars ==
    <<codec_vars, http_vars, channel_vars, upnp_vars,
      <<net, found, mode, dpc, configuration, device, linkplay_devices,
        next_response, probes, task_errors, exc, searched, file_before, user_input>> >>

(***************************************************************************)
(* Python values.                                                          *)
(*                                                                         *)
(* A bytes or str value is kept run-length encoded: a sequence of runs     *)
(* <<element, count>> with count >= 1 and adjacent runs of different       *)
(* elements, so that equal values have equal representations and a value   *)
(* of millions of elements stays small.                                    *)
(*                                                                         *)
(* A Python int that may exceed 2^31 - 1 is kept in two limbs <<hi, lo>>,  *)
(* value hi * 2^16 + lo with 0 <= lo < 2^16.                               *)
(***************************************************************************)

Base == 256 * 256

RECURSIVE Norm(_)
Norm(r) ==
    IF r = <<>> THEN <<>>
    ELSE LET t == Norm(Tail(r)) IN
         IF r[1][2] = 0 THEN t
         ELSE IF t # <<>> /\ t[1][1] = r[1][1]
              THEN << <<r[1][1], r[1][2] + t[1][2]>> >> \o Tail(t)
              ELSE <<r[1]>> \o t

FromSeq(s) == Norm([i \in 1..Len(s) |-> <<s[i], 1>>])

BCat(a, b) == Norm(a \o b)

RECURSIVE BLen(_)
BLen(r) == IF r = <<>> THEN 0 ELSE r[1][2] + BLen(Tail(r))

RECURSIVE BTake(_, _)
BTake(r, k) ==
    IF k <= 0 \/ r = <<>> THEN <<>>
    ELSE IF r[1][2] >= k THEN << <<r[1][1], k>> >>
    ELSE <<r[1]>> \o BTake(Tail(r), k - r[1][2])

RECURSIVE BDrop(_, _)
BDrop(r, k) ==
    IF k <= 0 \/ r = <<>> THEN r
    ELSE IF r[1][2] > k THEN << <<r[1][1], r[1][2] - k>> >> \o Tail(r)
    ELSE BDrop(Tail(r), k - r[1][2])

BSlice(r, from, n) == BTake(BDrop(r, from), n)

\* r[i], 0-based as in Python
BAt(r, i) == BDrop(r, i)[1][1]

\* r with the element at 0-based index i replaced by v
BSet(r, i, v) == BCat(BCat(BTake(r, i), << <<v, 1>> >>), BDrop(r, i + 1))

startswith(r, prefix) == BTake(r, BLen(prefix)) = prefix

RECURSIVE Rep(_, _)
Rep(r, n) == IF n <= 0 THEN <<>> ELSE BCat(r, Rep(r, n - 1))

Wide(n) == <<n \div Base, n % Base>>

WNorm(hi, lo) == <<hi + (lo \div Base), lo % Base>>

WAdd(a, b) == WNorm(a[1] + b[1], a[2] + b[2])

\* b * n for a byte b and a count n
WMul(b, n) == WNorm(b * (n \div Base), b * (n % Base))

\* a > n for a two-limb a and a plain n
WGreater(a, n) ==
    a[1] > (n \div Base) \/ (a[1] = (n \div Base) /\ a[2] > (n % Base))

WToInt(a) == (a[1] * Base) + a[2]

(***************************************************************************)
(* str.encode('utf-8') as bytes(command, 'utf-8') computes it, code point  *)
(* by code point.  The alphabets below hold no surrogate code points       *)
(* (U+D800..U+DFFF), which Python refuses to encode.                       *)
(***************************************************************************)
Utf8Char(c) ==
    IF c < 128 THEN <<c>>
    ELSE IF c < 2048 THEN <<192 + (c \div 64), 128 + (c % 64)>>
    ELSE IF c < 65536
         THEN <<224 + (c \div 4096), 128 + ((c \div 64) % 64), 128 + (c % 64)>>
    ELSE <<240 + (c \div 262144), 128 + ((c \div 4096) % 64),
           128 + ((c \div 64) % 64), 128 + (c % 64)>>

RECURSIVE Utf8(_)
Utf8(s) ==
    IF s = <<>> THEN <<>>
    ELSE BCat(IF s[1][1] < 128 THEN <<s[1]>>
              ELSE Rep(FromSeq(Utf8Char(s[1][1])), s[1][2]),
              Utf8(Tail(s)))

(***************************************************************************)
(* tcp_uart.py: TCP_UART_MESSAGE_STRUCT                                    *)
(***************************************************************************)
TCP_UART_MAGIC == FromSeq(<<24, 150, 24, 32>>)

NUMBER_OF_RESPONSE_BYTES_TO_READ == 4096

\* b'AXX+UNKNOWN'
TCP_UART_UNKNOWN_COMMAND_RESPONSE ==
    FromSeq(<<65, 88, 88, 43, 85, 78, 75, 78, 79, 87, 78>>)

HeaderSize == 4 + 4 + 4 + 8

\* Python's sum over the payload's bytes: an unbounded int
RECURSIVE sum(_)
sum(payload) ==
    IF payload = <<>> THEN Wide(0)
    ELSE WAdd(WMul(payload[1][1], payload[1][2]), sum(Tail(payload)))

\* A plausible slip: the four bytes written most significant first.
Int32ub_build(w) ==
    IF w[1] >= Base THEN [status |-> "FormatFieldError", data |-> <<>>]
    ELSE [status |-> "ok",
          data |-> FromSeq(<<w[1] \div 256, w[1] % 256, w[2] \div 256, w[2] % 256>>)]

\* Int32ul building: struct.pack('<L', v), which refuses v >= 2^32
Int32ul_build(w) ==
    IF w[1] >= Base THEN [status |-> "FormatFieldError", data |-> <<>>]
    ELSE [status |-> "ok",
          data |-> FromSeq(<<w[2] % 256, w[2] \div 256, w[1] % 256, w[1] \div 256>>)]

\* Int32ul parsing of four bytes
Int32ul_parse(b) ==
    <<BAt(b, 2) + (256 * BAt(b, 3)), BAt(b, 0) + (256 * BAt(b, 1))>>

Padding(n) == IF n = 0 THEN <<>> ELSE << <<0, n>> >>

\* A plausible slip: a read that hands back whatever is left.
stream_read_lenient(data, pos, n) ==
    [status |-> "ok",
     data |-> BSlice(data, pos,
                     IF WGreater(n, BLen(data)) THEN BLen(data) ELSE WToInt(n))]

\* construct's stream read of exactly n bytes at offset pos (n in two limbs)
stream_read(data, pos, n) ==
    IF WGreater(n, BLen(data) - pos) THEN [status |-> "StreamError", data |-> <<>>]
    ELSE [status |-> "ok", data |-> BSlice(data, pos, WToInt(n))]

\* A plausible slip: the stored checksum is read and not compared.
Checksum_parse_unchecked(field, payload) == "ok"

\* Checksum(Int32ul, sum, this.payload) on parsing
Checksum_parse(field, payload) ==
    IF Int32ul_parse(field) = sum(payload) THEN "ok" ELSE "ChecksumError"

TCP_UART_MESSAGE_STRUCT_build(payload) ==
    LET length   == Int32ul_build(Wide(BLen(payload)))
        checksum == Int32ul_build(sum(payload))
    IN  IF length.status # "ok" THEN length
        ELSE IF checksum.status # "ok" THEN checksum
        ELSE [status |-> "ok",
              data |-> BCat(TCP_UART_MAGIC,
                       BCat(length.data,
                       BCat(checksum.data,
                       BCat(Padding(8), payload))))]

Failed(status) == [status |-> status, payload |-> <<>>]

TCP_UART_MESSAGE_STRUCT_parse(data) ==
    LET magic    == stream_read(data, 0, Wide(4))
        length   == stream_read(data, 4, Wide(4))
        checksum == stream_read(data, 8, Wide(4))
        reserved == stream_read(data, 12, Wide(8))
    IN  IF magic.status # "ok" THEN Failed(magic.status)
        ELSE IF magic.data # TCP_UART_MAGIC THEN Failed("ConstError")
        ELSE IF length.status # "ok" THEN Failed(length.status)
        ELSE IF checksum.status # "ok" THEN Failed(checksum.status)
        ELSE IF reserved.status # "ok" THEN Failed(reserved.status)
        ELSE LET payload == stream_read(data, HeaderSize,
                                        Int32ul_parse(length.data))
             IN  IF payload.status # "ok" THEN Failed(payload.status)
                 ELSE IF Checksum_parse(checksum.data, payload.data) # "ok"
                      THEN Failed("ChecksumError")
                 ELSE [status |-> "ok", payload |-> payload.data]

(***************************************************************************)
(* tcp_uart.py: TcpUart.run_command, against a peer that answers with the  *)
(* frame it was sent, with that frame and one payload byte replaced, or    *)
(* with a frame of its own.                                                *)
(***************************************************************************)
MaxCmdLen == 2

\* chars of '~' whose byte sum is the first to reach 2^32
LongRun == 34087043

LongReplyLen == 5000

MaxFlipIndex == 8

\* K O e-acute euro-sign grinning-face
Alphabet == {75, 79, 233, 8364, 128512}

FlipValues == {0, 1, 75, 79, 128, 191, 255}

SeqsUpTo(S, n) == UNION {[1..k -> S] : k \in 0..n}

Commands ==
    {FromSeq(s) : s \in SeqsUpTo(Alphabet, MaxCmdLen)}
    \cup {<< <<126, n>> >> : n \in {LongRun - 1, LongRun}}

\* b'OK', b'AXX+UNKNOWN', b'AXX+VOL+050', and a reply longer than one recv
Replies ==
    {FromSeq(<<79, 75>>),
     TCP_UART_UNKNOWN_COMMAND_RESPONSE,
     FromSeq(<<65, 88, 88, 43, 86, 79, 76, 43, 48, 53, 48>>),
     << <<65, LongReplyLen>> >>}

Min(a, b) == IF a < b THEN a ELSE b

\* the lengths socket.recv(NUMBER_OF_RESPONSE_BYTES_TO_READ) may return when
\* the peer has sent w: any prefix up to the buffer size (0: peer closed)
RecvLengths(w) ==
    LET most == Min(BLen(w), NUMBER_OF_RESPONSE_BYTES_TO_READ)
    IN  {k \in 0..most : k <= HeaderSize + (4 * MaxCmdLen) \/ k >= most - 1}

None == [status |-> "none", payload |-> <<>>]

NoResult == [kind |-> "none", value |-> <<>>]

Raise(exception) == [kind |-> "raise", value |-> exception]

Return(value) == [kind |-> "return", value |-> value]

CodecInit ==
    /\ cpc = "idle"
    /\ command = <<>>
    /\ built = [status |-> "none", data |-> <<>>]
    /\ reply_kind = "none"
    /\ wire = <<>>
    /\ received = <<>>
    /\ parsed = None
    /\ result = NoResult

\* run_command up to sendall: build the frame, or fail building it
run_command_send(c) ==
    /\ cpc = "idle"
    /\ command' = c
    /\ built' = TCP_UART_MESSAGE_STRUCT_build(Utf8(c))
    /\ IF built'.status = "ok"
       THEN cpc' = "sent" /\ result' = result
       ELSE cpc' = "done" /\ result' = Raise(built'.status)
    /\ UNCHANGED <<reply_kind, wire, received, parsed>>
    /\ UNCHANGED not_codec_vars

PeerEcho ==
    /\ cpc = "sent"
    /\ reply_kind' = "echo"
    /\ wire' = built.data
    /\ cpc' = "replied"
    /\ UNCHANGED <<command, built, received, parsed, result>>
    /\ UNCHANGED not_codec_vars

PeerFlip(i, v) ==
    /\ cpc = "sent"
    /\ i < BLen(built.data) - HeaderSize
    /\ BAt(built.data, HeaderSize + i) # v
    /\ reply_kind' = "flip"
    /\ wire' = BSet(built.data, HeaderSize + i, v)
    /\ cpc' = "replied"
    /\ UNCHANGED <<command, built, received, parsed, result>>
    /\ UNCHANGED not_codec_vars

PeerReply(p) ==
    /\ cpc = "sent"
    /\ reply_kind' = "reply"
    /\ wire' = TCP_UART_MESSAGE_STRUCT_build(p).data
    /\ cpc' = "replied"
    /\ UNCHANGED <<command, built, received, parsed, result>>
    /\ UNCHANGED not_codec_vars

\* run_command from recv to its return or raise
run_command_recv(k) ==
    /\ cpc = "replied"
    /\ received' = BTake(wire, k)
    /\ parsed' = TCP_UART_MESSAGE_STRUCT_parse(received')
    /\ result' = IF parsed'.status # "ok" THEN Raise(parsed'.status)
                 ELSE IF startswith(parsed'.payload, TCP_UART_UNKNOWN_COMMAND_RESPONSE)
                      THEN Raise("LinkplayCliGetRequestUnknownCommandException")
                 ELSE Return(parsed'.payload)
    /\ cpc' = "done"
    /\ UNCHANGED <<command, built, reply_kind, wire>>
    /\ UNCHANGED not_codec_vars

CodecNext ==
    \/ \E c \in Commands : run_command_send(c)
    \/ PeerEcho
    \/ \E i \in 0..(MaxFlipIndex - 1), v \in FlipValues : PeerFlip(i, v)
    \/ \E p \in Replies : PeerReply(p)
    \/ \E k \in RecvLengths(wire) : run_command_recv(k)

(***************************************************************************)
(* utils.py: perform_get_request.  A str is a sequence of code points; the *)
(* bodies below are ASCII, for which response.text, response.content and   *)
(* the UTF-8 re-decoding of line 62 hold the same code points.             *)
(***************************************************************************)

\* "unknown command"
UNKNOWN_COMMAND_STRING ==
    <<117, 110, 107, 110, 111, 119, 110, 32, 99, 111, 109, 109, 97, 110, 100>>

\* HTTPStatus.OK
HTTP_OK == 200

\* A plausible slip: the comparison made without folding the case.
lower_missing(text) == text

\* str.lower() on ASCII text
lower(text) ==
    [i \in 1..Len(text) |-> IF text[i] \in 65..90 THEN text[i] + 32 ELSE text[i]]

\* A plausible slip: every 2xx status taken for a success.
status_code_is_ok_2xx(status_code) == status_code \in 200..299

\* response.status_code != HTTPStatus.OK, negated
status_code_is_ok(status_code) == status_code = HTTP_OK

(* response.json() for the documents the devices send: an object of string
   members, without white space or escapes.  The result is the sequence of
   <<key, value>> pairs; anything else raises JSONDecodeError.            *)
JsonError == [ok |-> FALSE, value |-> <<>>, next |-> 0]

\* a string literal starting at s[i]
json_string(s, i) ==
    IF i > Len(s) \/ s[i] # 34 THEN JsonError
    ELSE LET closing == {j \in (i + 1)..Len(s) : s[j] = 34}
         IN  IF closing = {} THEN JsonError
             ELSE LET j == CHOOSE x \in closing : \A y \in closing : x <= y
                  IN  [ok |-> TRUE, value |-> SubSeq(s, i + 1, j - 1), next |-> j + 1]

RECURSIVE json_members(_, _, _)
json_members(s, i, acc) ==
    LET key == json_string(s, i)
        val == json_string(s, key.next + 1)
    IN  IF ~key.ok THEN JsonError
        ELSE IF key.next > Len(s) \/ s[key.next] # 58 THEN JsonError
        ELSE IF ~val.ok THEN JsonError
        ELSE IF val.next > Len(s) THEN JsonError
        ELSE IF s[val.next] = 44
             THEN json_members(s, val.next + 1, Append(acc, <<key.value, val.value>>))
        ELSE IF s[val.next] = 125 /\ val.next = Len(s)
             THEN [ok |-> TRUE, value |-> Append(acc, <<key.value, val.value>>), next |-> 0]
        ELSE JsonError

json(s) ==
    IF Len(s) < 2 \/ s[1] # 123 THEN JsonError
    ELSE IF s = <<123, 125>> THEN [ok |-> TRUE, value |-> <<>>, next |-> 0]
    ELSE json_members(s, 2, <<>>)

Value(type, v) == [type |-> type, v |-> v]

perform_get_request(resp, want_json, want_bytes) ==
    IF resp.kind = "RequestException"
    THEN Raise("LinkplayCliGetRequestFailedException")
    ELSE IF ~status_code_is_ok(resp.status_code)
    THEN Raise("LinkplayCliGetRequestFailedException")
    ELSE IF lower(resp.text) = UNKNOWN_COMMAND_STRING
    THEN Raise("LinkplayCliGetRequestUnknownCommandException")
    ELSE IF want_json
    THEN IF json(resp.text).ok THEN Return(Value("json", json(resp.text).value))
         ELSE Raise("JSONDecodeError")
    ELSE IF want_bytes THEN Return(Value("bytes", resp.text))
    ELSE Return(Value("str", resp.text))

MaxUpper == 2

\* s with the letters at the positions of mask in upper case
WithUpper(s, mask) ==
    [i \in 1..Len(s) |-> IF i \in mask /\ s[i] \in 97..122 THEN s[i] - 32 ELSE s[i]]

UnknownCommandBodies ==
    {WithUpper(UNKNOWN_COMMAND_STRING, mask) :
        mask \in {m \in SUBSET (1..Len(UNKNOWN_COMMAND_STRING)) :
                     Cardinality(m) <= MaxUpper
                     \/ m = 1..Len(UNKNOWN_COMMAND_STRING)}}

\* {"project":"X","DeviceName":"Y"}
StatusBody ==
    <<123, 34, 112, 114, 111, 106, 101, 99, 116, 34, 58, 34, 88, 34, 44, 34, 68,
      101, 118, 105, 99, 101, 78, 97, 109, 101, 34, 58, 34, 89, 34, 125>>

\* {"project":"X"}
PartialStatusBody ==
    <<123, 34, 112, 114, 111, 106, 101, 99, 116, 34, 58, 34, 88, 34, 125>>

\* {"project":"X"
TruncatedStatusBody ==
    <<123, 34, 112, 114, 111, 106, 101, 99, 116, 34, 58, 34, 88, 34>>

\* OK
OkBody == <<79, 75>>

\* "unknown commands": one character more than the literal
AlmostUnknownBody == Append(UNKNOWN_COMMAND_STRING, 115)

Key_project == <<112, 114, 111, 106, 101, 99, 116>>

Key_DeviceName == <<68, 101, 118, 105, 99, 101, 78, 97, 109, 101>>

Bodies ==
    UnknownCommandBodies
    \cup {StatusBody, PartialStatusBody, TruncatedStatusBody, OkBody,
          AlmostUnknownBody, <<123, 125>>, <<>>}

StatusCodes == {200, 201, 204, 301, 404, 500}

Responses ==
    {[kind |-> "RequestException", status_code |-> 0, text |-> <<>>]}
    \cup {[kind |-> "response", status_code |-> sc, text |-> b] :
             sc \in StatusCodes, b \in Bodies}

HttpInit ==
    /\ hpc = "idle"
    /\ response = [kind |-> "none", status_code |-> 0, text |-> <<>>]
    /\ expect_json = FALSE
    /\ expect_bytes = FALSE
    /\ hresult = NoResult

\* one call of perform_get_request and the answer requests.get gets
perform_get_request_call(resp, want_json, want_bytes) ==
    /\ hpc = "idle"
    /\ response' = resp
    /\ expect_json' = want_json
    /\ expect_bytes' = want_bytes
    /\ hresult' = perform_get_request(resp, want_json, want_bytes)
    /\ hpc' = "done"
    /\ UNCHANGED not_http_vars

HttpNext ==
    \E resp \in Responses, want_json \in BOOLEAN, want_bytes \in BOOLEAN :
        perform_get_request_call(resp, want_json, want_bytes)


(***************************************************************************)
(* config.py, device.py                                                    *)
(***************************************************************************)
http_ports == <<80>>

tls_ports == <<4443>>

\* the names config.py defines
config_attributes ==
    {"get_request_timeout_seconds", "upnp_discover_timeout_message",
     "configuration_file_path", "client_certificate_path", "log_key",
     "log_chunk_size", "maximum_number_of_alarms", "http_ports", "tls_ports"}

\* the fields of the Device dataclass
Device_fields == {"ip_address", "port", "protocol", "model", "name", "tcp_uart_port"}

Device(ip_address, port, protocol, model, name, tcp_uart_port) ==
    [ip_address |-> ip_address, port |-> port, protocol |-> protocol,
     model |-> model, name |-> name, tcp_uart_port |-> tcp_uart_port]

\* Python's None where a Device is expected
NoDevice == Device(<<>>, 0, "", <<>>, <<>>, 0)

(***************************************************************************)
(* The network.  A host name is the sequence of its dot-separated labels,  *)
(* a numeric label as its value and any other label as -1.                 *)
(***************************************************************************)
Ips == {<<10, 0, 0, 5>>, <<10, 0, 0, 6>>}

\* the two addresses and speaker.local
Hostnames == Ips \cup {<<-1, -1>>}

Endpoints == {<<"http", 80>>, <<"https", 4443>>}

Behaviours == {"down", "notfound", "unknown", "text", "partial", "status"}

ResponseOf(behaviour) ==
    CASE behaviour = "down" ->
           [kind |-> "RequestException", status_code |-> 0, text |-> <<>>]
      [] behaviour = "notfound" ->
           [kind |-> "response", status_code |-> 404, text |-> <<>>]
      [] behaviour = "unknown" ->
           [kind |-> "response", status_code |-> 200, text |-> UNKNOWN_COMMAND_STRING]
      [] behaviour = "text" ->
           [kind |-> "response", status_code |-> 200, text |-> OkBody]
      [] behaviour = "partial" ->
           [kind |-> "response", status_code |-> 200, text |-> PartialStatusBody]
      [] behaviour = "status" ->
           [kind |-> "response", status_code |-> 200, text |-> StatusBody]

\* what requests.get gets from protocol://ip_address:port
Answer(ip_address, port, protocol) ==
    IF <<ip_address, <<protocol, port>>>> \in DOMAIN net
    THEN ResponseOf(net[<<ip_address, <<protocol, port>>>>])
    ELSE ResponseOf("down")

\* ipaddress.IPv4Address(hostname) accepts four labels in 0..255
IPv4Address_ok(hostname) ==
    Len(hostname) = 4 /\ \A i \in 1..4 : hostname[i] \in 0..255

(***************************************************************************)
(* discovery.py                                                            *)
(***************************************************************************)
get_linkplay_device_status(ip_address, port, protocol) ==
    perform_get_request(Answer(ip_address, port, protocol), TRUE, FALSE)

\* key in status, for the parsed JSON object
has_key(status, key) == \E i \in 1..Len(status) : status[i][1] = key

\* status[key]
get_item(status, key) ==
    status[CHOOSE i \in 1..Len(status) :
              status[i][1] = key /\ \A j \in (i + 1)..Len(status) : status[j][1] # key][2]

(* The Device(...) expression of lines 32-34 and 41-43.  Its keyword
   arguments are evaluated left to right, then the dataclass's __init__ is
   called with them.                                                      *)
Device_from_status(ip_address, port, protocol, status) ==
    IF ~has_key(status, Key_project) THEN Raise("KeyError")
    ELSE IF ~has_key(status, Key_DeviceName) THEN Raise("KeyError")
    ELSE IF "default_tcp_uart_port" \notin config_attributes
         THEN Raise("AttributeError")
    ELSE IF ~({"ip_address", "port", "protocol", "model", "name", "upnp_location",
               "tcp_uart_port"} \subseteq Device_fields)
         THEN Raise("TypeError")
    \* not reached: config.py defines no default_tcp_uart_port and Device has
    \* no upnp_location field
    ELSE Return(Device(ip_address, port, protocol, get_item(status, Key_project),
                       get_item(status, Key_DeviceName), 0))

Outcome(kind, dev, exception, probed) ==
    [kind |-> kind, device |-> dev, exc |-> exception, probes |-> probed]

\* one of the two for loops of lines 29-45
RECURSIVE try_ports(_, _, _)
try_ports(ip_address, ports, protocol) ==
    IF ports = <<>> THEN Outcome("none", NoDevice, "", <<>>)
    ELSE LET status == get_linkplay_device_status(ip_address, ports[1], protocol)
             probe  == <<ip_address, protocol, ports[1]>>
         IN  IF status.kind = "raise"
             THEN IF status.value = "LinkplayCliGetRequestFailedException"
                  THEN LET rest == try_ports(ip_address, Tail(ports), protocol)
                       IN  [rest EXCEPT !.probes = <<probe>> \o rest.probes]
                  ELSE Outcome("raise", NoDevice, status.value, <<probe>>)
             ELSE LET made == Device_from_status(ip_address, ports[1], protocol,
                                                 status.value.v)
                  IN  IF made.kind = "raise"
                      THEN Outcome("raise", NoDevice, made.value, <<probe>>)
                      ELSE Outcome("device", made.value, "", <<probe>>)

\* _get_valid_linkplay_device_configuration_from_upnp_location
get_valid_linkplay_device_configuration_from_upnp_location(hostname) ==
    IF ~IPv4Address_ok(hostname)
    THEN Outcome("raise", NoDevice, "AddressValueError", <<>>)
    ELSE LET over_http == try_ports(hostname, http_ports, "http")
         IN  IF over_http.kind # "none" THEN over_http
             ELSE LET over_tls == try_ports(hostname, tls_ports, "https")
                  IN  [over_tls EXCEPT !.probes = over_http.probes \o over_tls.probes]

\* A plausible slip: the return True of line 53 left out.
is_valid_linkplay_device_returns_none(dev) ==
    LET status == get_linkplay_device_status(dev.ip_address, dev.port, dev.protocol)
    IN  IF status.kind = "return" THEN Return(FALSE)
        ELSE IF status.value = "LinkplayCliGetRequestFailedException"
             THEN Return(FALSE)
        ELSE status

\* A plausible slip: the except branch returning True.
is_valid_linkplay_device_always_true(dev) ==
    LET status == get_linkplay_device_status(dev.ip_address, dev.port, dev.protocol)
    IN  IF status.kind = "return" THEN Return(TRUE)
        ELSE IF status.value = "LinkplayCliGetRequestFailedException"
             THEN Return(TRUE)
        ELSE status

is_valid_linkplay_device(dev) ==
    LET status == get_linkplay_device_status(dev.ip_address, dev.port, dev.protocol)
    IN  IF status.kind = "return" THEN Return(TRUE)
        ELSE IF status.value = "LinkplayCliGetRequestFailedException"
             THEN Return(FALSE)
        ELSE status

(***************************************************************************)
(* configure.py                                                            *)
(***************************************************************************)
\* the Configuration dataclass
Configuration(devices, active_device) ==
    [devices |-> devices, active_device |-> active_device]

(* pickle.dump and pickle.load.  A pickle is a sequence of opcodes, each with
   its argument: the protocol header, the mark that opens the devices list,
   one opcode per Device, the opcode that closes the list, the active device
   (a Device or None) and the final STOP.  Only a stream that runs from the
   header to STOP is loaded; an empty stream is EOFError and any other
   stream is UnpicklingError.                                              *)
Op(op, arg) == [op |-> op, arg |-> arg]

RECURSIVE pickle_devices(_)
pickle_devices(devices) ==
    IF devices = <<>> THEN <<>>
    ELSE <<Op("DEVICE", devices[1])>> \o pickle_devices(Tail(devices))

pickle_dumps(obj) ==
    <<Op("PROTO", NoDevice), Op("MARK", NoDevice)>>
    \o pickle_devices(obj.devices)
    \o <<Op("LIST", NoDevice),
         IF obj.active_device = NoDevice THEN Op("NONE", NoDevice)
         ELSE Op("DEVICE", obj.active_device),
         Op("STOP", NoDevice)>>

pickle_load(data) ==
    LET n == Len(data)
    IN  IF n = 0 THEN Raise("EOFError")
        ELSE IF /\ n >= 5
                /\ data[1].op = "PROTO"
                /\ data[2].op = "MARK"
                /\ \A i \in 3..(n - 3) : data[i].op = "DEVICE"
                /\ data[n - 2].op = "LIST"
                /\ data[n - 1].op \in {"DEVICE", "NONE"}
                /\ data[n].op = "STOP"
        THEN Return(Configuration([i \in 1..(n - 5) |-> data[i + 2].arg],
                                  data[n - 1].arg))
        ELSE Raise("UnpicklingError")

(* The file at config.configuration_file_path: whether it exists, whether
   this user may read it, and the pickle opcodes it holds.                 *)
File(exists, readable, data) ==
    [exists |-> exists, readable |-> readable, data |-> data]

\* no file at config.configuration_file_path
NoFile == File(FALSE, TRUE, <<>>)

\* the file a completed save_configuration_to_file leaves
FileOf(obj) == File(TRUE, TRUE, pickle_dumps(obj))

\* open(path, 'wb') creates the file or truncates it; its mode bits stay
open_wb(f) == File(TRUE, IF f.exists THEN f.readable ELSE TRUE, <<>>)

\* A plausible slip: devices[0] stored as the active device.
save_configuration_to_file_first_device(f, devices, active_device) ==
    [open_wb(f) EXCEPT !.data = pickle_dumps(Configuration(devices, devices[1]))]

\* A plausible slip: the devices list left out of the record.
save_configuration_to_file_without_devices(f, devices, active_device) ==
    [open_wb(f) EXCEPT !.data = pickle_dumps(Configuration(<<>>, active_device))]

\* lines 18-20 run to their end: the registry file afterwards
save_configuration_to_file(f, devices, active_device) ==
    [open_wb(f) EXCEPT !.data = pickle_dumps(Configuration(devices, active_device))]

\* lines 23-28: only FileNotFoundError is caught
load_configuration_from_file ==
    IF ~file.exists THEN Return(Configuration(<<>>, NoDevice))
    ELSE IF ~file.readable THEN Raise("PermissionError")
    ELSE pickle_load(file.data)

\* str.isdigit(): the ASCII digits and, among the other characters with the
\* Unicode digit property, the superscripts two, three and one
isdigit(text) ==
    text # <<>> /\ \A i \in 1..Len(text) : text[i] \in (48..57) \cup {178, 179, 185}

\* whether int(text) accepts a text of digits: the superscripts are digits
\* and no decimals, and int raises ValueError on them
int_accepts(text) == \A i \in 1..Len(text) : text[i] \in 48..57

\* int(text) for a text of ASCII digits
RECURSIVE int(_)
int(text) ==
    IF text = <<>> THEN 0
    ELSE (10 * int(SubSeq(text, 1, Len(text) - 1))) + (text[Len(text)] - 48)

\* prompt_user_to_choose_active_device: its result and the registry file after it
prompt_user_to_choose_active_device(devices, choice) ==
    IF devices = <<>>
    THEN [result |-> Raise("LinkplayCliDeviceNotFoundException"), file |-> file,
          asked |-> FALSE]
    ELSE IF Len(devices) = 1
    THEN [result |-> Return(devices[1]),
          file |-> save_configuration_to_file(file, devices, devices[1]),
          asked |-> FALSE]
    ELSE IF isdigit(choice) /\ ~int_accepts(choice)
    THEN [result |-> Raise("ValueError"), file |-> file, asked |-> TRUE]
    ELSE IF isdigit(choice) /\ 0 <= int(choice) /\ int(choice) <= Len(devices) - 1
    THEN [result |-> Return(devices[int(choice) + 1]),
          file |-> save_configuration_to_file(file, devices, devices[int(choice) + 1]),
          asked |-> TRUE]
    ELSE [result |-> Raise("LinkplayCliDeviceNotFoundException"), file |-> file,
          asked |-> TRUE]

(***************************************************************************)
(* One invocation of the program: LinkplayCli.__init__ (any command but    *)
(* rediscover) or main's rediscover branch, then discovery, then the       *)
(* choice of the active device.                                            *)
(***************************************************************************)
MaxResponses == 2

\* {"project":"X","DeviceName":"Y"} as a registry entry
DeviceA == Device(<<10, 0, 0, 5>>, 80, "http", <<88>>, <<89>>, 8899)

DeviceB == Device(<<10, 0, 0, 6>>, 4443, "https", <<88>>, <<89>>, 8899)

\* the registry files an invocation may find
Files ==
    {NoFile,
     FileOf(Configuration(<<DeviceA>>, DeviceA)),
     FileOf(Configuration(<<DeviceA, DeviceB>>, DeviceB))}

\* the answers to one multicast search: distinct hosts, in order of arrival
FoundLists ==
    {f \in SeqsUpTo(Hostnames, MaxResponses) :
        \A i, j \in 1..Len(f) : i # j => f[i] # f[j]}

\* "0", "1", "2", "x", the empty line and superscript two
Inputs == {<<48>>, <<49>>, <<50>>, <<120>>, <<>>, <<178>>}

DiscIdle ==
    /\ mode = "none"
    /\ dpc = "start"
    /\ configuration = Configuration(<<>>, NoDevice)
    /\ device = NoDevice
    /\ linkplay_devices = <<>>
    /\ next_response = 1
    /\ probes = <<>>
    /\ task_errors = <<>>
    /\ exc = ""
    /\ searched = FALSE
    /\ file_before = file
    /\ user_input = <<>>

\* on the tls port a host is down, answers with a body that is not JSON, or
\* answers with its status
TlsBehaviours == {"down", "text", "status"}

Nets ==
    {n \in [Ips \X Endpoints -> Behaviours] :
        \A ip_address \in Ips : n[<<ip_address, <<"https", 4443>>>>] \in TlsBehaviours}

DiscInit ==
    /\ file \in Files
    /\ net \in Nets
    /\ found \in FoundLists
    /\ DiscIdle

\* LinkplayCli.__init__ up to the call of discover_linkplay_devices
LinkplayCli_init ==
    /\ dpc = "start"
    /\ mode' = "cli"
    /\ LET loaded == load_configuration_from_file
           conf   == IF loaded.kind = "return" THEN loaded.value ELSE configuration
           valid  == IF loaded.kind = "raise" THEN loaded
                     ELSE IF conf.active_device # NoDevice
                     THEN is_valid_linkplay_device(conf.active_device)
                     ELSE Return(FALSE)
       IN  /\ configuration' = conf
           /\ probes' = IF conf.active_device # NoDevice
                        THEN << <<conf.active_device.ip_address,
                                  conf.active_device.protocol,
                                  conf.active_device.port>> >>
                        ELSE <<>>
           /\ IF valid.kind = "raise"
              THEN dpc' = "raised" /\ exc' = valid.value
                   /\ device' = device /\ searched' = FALSE
              ELSE IF valid.value
              THEN dpc' = "ready" /\ exc' = exc
                   /\ device' = conf.active_device /\ searched' = FALSE
              ELSE dpc' = "searching" /\ exc' = exc
                   /\ device' = device /\ searched' = TRUE
    /\ UNCHANGED <<file, net, found, linkplay_devices, next_response, task_errors,
                   file_before, user_input>>
    /\ UNCHANGED not_disc_vars

\* main with the rediscover command, up to the call of discover_linkplay_devices
main_rediscover ==
    /\ dpc = "start"
    /\ mode' = "rediscover"
    /\ dpc' = "searching"
    /\ searched' = TRUE
    /\ UNCHANGED <<file, net, found, configuration, device, linkplay_devices,
                   next_response, probes, task_errors, exc, file_before, user_input>>
    /\ UNCHANGED not_disc_vars

(* add_linkplay_device_to_list for the next search response.  async_search
   runs the callback as a task of its own: an exception the callback does
   not catch ends that task and nothing else.                             *)
add_linkplay_device_to_list ==
    /\ dpc = "searching"
    /\ next_response <= Len(found)
    /\ LET potential ==
               get_valid_linkplay_device_configuration_from_upnp_location(
                   found[next_response])
       IN  /\ probes' = probes \o potential.probes
           /\ linkplay_devices' = IF potential.kind = "device"
                                  THEN Append(linkplay_devices, potential.device)
                                  ELSE linkplay_devices
           /\ task_errors' = IF potential.kind = "raise"
                             THEN Append(task_errors, potential.exc)
                             ELSE task_errors
    /\ next_response' = next_response + 1
    /\ UNCHANGED <<file, net, found, mode, dpc, configuration, device, exc, searched,
                   file_before, user_input>>
    /\ UNCHANGED not_disc_vars

\* the search window ends: discover_linkplay_devices raises or returns its
\* list, and the caller passes the list to prompt_user_to_choose_active_device
discover_linkplay_devices_ends(choice) ==
    /\ dpc = "searching"
    /\ next_response > Len(found)
    /\ IF linkplay_devices = <<>>
       THEN /\ dpc' = "raised"
            /\ exc' = "LinkplayCliDeviceNotFoundException"
            /\ UNCHANGED <<file, device, user_input>>
       ELSE LET chosen == prompt_user_to_choose_active_device(linkplay_devices, choice)
            IN  /\ file' = chosen.file
                /\ user_input' = IF chosen.asked THEN choice ELSE user_input
                /\ IF chosen.result.kind = "raise"
                   THEN dpc' = "raised" /\ exc' = chosen.result.value
                        /\ device' = device
                   ELSE dpc' = "ready" /\ exc' = exc
                        /\ device' = IF mode = "cli" THEN chosen.result.value
                                     ELSE device
    /\ UNCHANGED <<net, found, mode, configuration, linkplay_devices, next_response,
                   probes, task_errors, searched, file_before>>
    /\ UNCHANGED not_disc_vars

\* the process has ended; the program is started again
next_invocation ==
    /\ dpc \in {"ready", "raised"}
    /\ mode' = "none"
    /\ dpc' = "start"
    /\ configuration' = Configuration(<<>>, NoDevice)
    /\ device' = NoDevice
    /\ linkplay_devices' = <<>>
    /\ next_response' = 1
    /\ probes' = <<>>
    /\ task_errors' = <<>>
    /\ exc' = ""
    /\ searched' = FALSE
    /\ file_before' = file
    /\ user_input' = <<>>
    /\ UNCHANGED <<file, net, found>>
    /\ UNCHANGED not_disc_vars

\* between two invocations an endpoint stops answering
endpoint_goes_down(ip_address, endpoint) ==
    /\ dpc = "start"
    /\ net[<<ip_address, endpoint>>] # "down"
    /\ net' = [net EXCEPT ![<<ip_address, endpoint>>] = "down"]
    /\ UNCHANGED <<file, found, mode, dpc, configuration, device, linkplay_devices,
                   next_response, probes, task_errors, exc, searched, file_before,
                   user_input>>
    /\ UNCHANGED not_disc_vars

Next ==
    \/ LinkplayCli_init
    \/ main_rediscover
    \/ add_linkplay_device_to_list
    \/ \E choice \in Inputs : discover_linkplay_devices_ends(choice)
    \/ next_invocation
    \/ \E ip_address \in Ips, endpoint \in Endpoints :
           endpoint_goes_down(ip_address, endpoint)

(***************************************************************************)
(* configure.py, call by call: prompt_user_to_choose_active_device with    *)
(* any list of devices and any line typed, save_configuration_to_file      *)
(* statement by statement, the process being killed while the file is      *)
(* open, and load_configuration_from_file on whatever the file then holds. *)
(***************************************************************************)
MaxDevices == 2

DeviceLists == SeqsUpTo({DeviceA, DeviceB}, MaxDevices)

\* a file nobody may read, a file cut short, a file of something else
DamagedFiles ==
    {File(TRUE, FALSE, pickle_dumps(Configuration(<<DeviceA>>, DeviceA))),
     File(TRUE, TRUE, <<>>),
     File(TRUE, TRUE, SubSeq(pickle_dumps(Configuration(<<DeviceA>>, DeviceA)), 1, 3)),
     File(TRUE, TRUE, <<Op("GARBAGE", NoDevice)>>)}

RegistryIdle ==
    /\ rpc = "idle"
    /\ prompt_devices = <<>>
    /\ choice_index = 0
    /\ rresult = NoResult
    /\ file_at_call = file

\* lines 32-50 of prompt_user_to_choose_active_device
prompt_user_to_choose_active_device_begins(devices, choice) ==
    /\ rpc = "idle"
    /\ prompt_devices' = devices
    /\ file_at_call' = file
    /\ LET whole == prompt_user_to_choose_active_device(devices, choice)
       IN  IF whole.result.kind = "raise"
           THEN rpc' = "raised" /\ rresult' = whole.result
                /\ choice_index' = choice_index
           ELSE rpc' = "save" /\ rresult' = rresult
                /\ choice_index' = IF Len(devices) = 1 THEN 0 ELSE int(choice)
    /\ UNCHANGED file
    /\ UNCHANGED not_registry_vars

\* what lines 18-20 write for the call in progress
BeingSaved ==
    save_configuration_to_file(file_at_call, prompt_devices,
                               prompt_devices[choice_index + 1]).data

\* line 18: open(config.configuration_file_path, 'wb')
save_configuration_to_file_open ==
    /\ rpc = "save"
    /\ file' = open_wb(file)
    /\ rpc' = "opened"
    /\ UNCHANGED <<prompt_devices, choice_index, rresult, file_at_call>>
    /\ UNCHANGED not_registry_vars

\* line 20: the next part of the pickle reaches the file
save_configuration_to_file_write ==
    /\ rpc = "opened"
    /\ Len(file.data) < Len(BeingSaved)
    /\ file' = [file EXCEPT !.data = SubSeq(BeingSaved, 1, Len(file.data) + 1)]
    /\ UNCHANGED registry_vars
    /\ UNCHANGED not_registry_vars

\* the with block ends, then lines 53-54
prompt_user_to_choose_active_device_returns ==
    /\ rpc = "opened"
    /\ file.data = BeingSaved
    /\ rpc' = "returned"
    /\ rresult' = Return(prompt_devices[choice_index + 1])
    /\ UNCHANGED <<file, prompt_devices, choice_index, file_at_call>>
    /\ UNCHANGED not_registry_vars

\* open or write raises OSError (no space left, read-only file system)
save_configuration_to_file_raises ==
    /\ rpc \in {"save", "opened"}
    /\ rpc = "opened" => Len(file.data) < Len(BeingSaved)
    /\ rpc' = "raised"
    /\ rresult' = Raise("OSError")
    /\ UNCHANGED <<file, prompt_devices, choice_index, file_at_call>>
    /\ UNCHANGED not_registry_vars

\* the process is killed inside save_configuration_to_file
killed_in_save ==
    /\ rpc \in {"save", "opened"}
    /\ rpc' = "killed"
    /\ UNCHANGED <<file, prompt_devices, choice_index, rresult, file_at_call>>
    /\ UNCHANGED not_registry_vars

load_configuration_from_file_call ==
    /\ rpc = "idle"
    /\ rpc' = "loaded"
    /\ rresult' = load_configuration_from_file
    /\ file_at_call' = file
    /\ UNCHANGED <<file, prompt_devices, choice_index>>
    /\ UNCHANGED not_registry_vars

\* the call is over; the next one starts from the file as it is
next_call ==
    /\ rpc \in {"returned", "raised", "killed", "loaded"}
    /\ rpc' = "idle"
    /\ prompt_devices' = <<>>
    /\ choice_index' = 0
    /\ rresult' = NoResult
    /\ file_at_call' = file
    /\ UNCHANGED file
    /\ UNCHANGED not_registry_vars

RegistryNext ==
    \/ \E devices \in DeviceLists, choice \in Inputs :
           prompt_user_to_choose_active_device_begins(devices, choice)
    \/ save_configuration_to_file_open
    \/ save_configuration_to_file_write
    \/ prompt_user_to_choose_active_device_returns
    \/ save_configuration_to_file_raises
    \/ killed_in_save
    \/ load_configuration_from_file_call
    \/ next_call

\* start-up is not running; the registry file is any of the files above
RegistryInit ==
    /\ file \in Files \cup DamagedFiles
    /\ net = [e \in Ips \X Endpoints |-> "down"]
    /\ found = <<>>
    /\ DiscIdle
    /\ RegistryIdle

(***************************************************************************)
(* tcp_uart.py and utils.py in time: the lifetime of one TcpUart, from     *)
(* __init__ to __del__, and one requests.get, against a peer that may      *)
(* answer, refuse, reset the connection or stay silent.  A blocking call   *)
(* ends when the peer acts or when the timeout it was given expires.       *)
(***************************************************************************)
MaxCommands == 2

\* config.py line 3
get_request_timeout_seconds == 5

\* no timeout
Blocking == 0

(* The timeout of each blocking call.  requests.get is given
   config.get_request_timeout_seconds.  socket.create_connection is given no
   timeout and the socket is never given one, so the socket blocks: connect
   ends when the kernel gives up retransmitting, recv has no limit.         *)
TimeoutOf(call) ==
    CASE call = "get" -> get_request_timeout_seconds
      [] call = "connect" -> Blocking
      [] call = "recv" -> Blocking

\* a blocking connect is still ended by the kernel (ETIMEDOUT)
Expires(call) == TimeoutOf(call) # Blocking \/ call = "connect"

ChannelIdle ==
    /\ tpc = "new"
    /\ attr_socket = FALSE
    /\ sock = "none"
    /\ link = "up"
    /\ texc = ""
    /\ del_exc = ""
    /\ commands_run = 0
    /\ gpc = "idle"

\* TcpUart.__init__ up to socket.create_connection
TcpUart_init ==
    /\ tpc = "new"
    /\ tpc' = "connect"
    /\ UNCHANGED <<attr_socket, sock, link, texc, del_exc, commands_run, gpc>>
    /\ UNCHANGED not_channel_vars

\* the device accepts the connection: line 29 assigns self._socket
peer_accepts ==
    /\ tpc = "connect"
    /\ tpc' = "ready"
    /\ attr_socket' = TRUE
    /\ sock' = "open"
    /\ UNCHANGED <<link, texc, del_exc, commands_run, gpc>>
    /\ UNCHANGED not_channel_vars

\* the device refuses the connection: create_connection raises
peer_refuses ==
    /\ tpc = "connect"
    /\ tpc' = "init_raised"
    /\ texc' = "ConnectionRefusedError"
    /\ UNCHANGED <<attr_socket, sock, link, del_exc, commands_run, gpc>>
    /\ UNCHANGED not_channel_vars

\* the timeout of the call in progress expires
call_times_out(call) ==
    /\ Expires(call)
    /\ \/ /\ call = "connect" /\ tpc = "connect"
          /\ tpc' = "init_raised" /\ texc' = "TimeoutError"
          /\ UNCHANGED gpc
       \/ /\ call = "recv" /\ tpc = "recv"
          /\ tpc' = "raised" /\ texc' = "TimeoutError"
          /\ UNCHANGED gpc
       \/ /\ call = "get" /\ gpc = "get"
          /\ gpc' = "raised"
          /\ UNCHANGED <<tpc, texc>>
    /\ UNCHANGED <<attr_socket, sock, link, del_exc, commands_run>>
    /\ UNCHANGED not_channel_vars

(* run_command, lines 37-40: build and sendall.  build raises for a payload
   whose byte sum does not fit 32 bits; sendall raises on a connection the
   peer has reset.                                                          *)
run_command_sendall(build_fails) ==
    /\ tpc = "ready"
    /\ commands_run < MaxCommands
    /\ commands_run' = commands_run + 1
    /\ IF build_fails
       THEN tpc' = "raised" /\ texc' = "FormatFieldError"
       ELSE IF link = "reset"
       THEN tpc' = "raised" /\ texc' = "BrokenPipeError"
       ELSE tpc' = "recv" /\ texc' = ""
    /\ UNCHANGED <<attr_socket, sock, link, del_exc, gpc>>
    /\ UNCHANGED not_channel_vars

(* The device answers and run_command runs to its end, lines 41-49: with
   the payload, or raising because the frame does not parse (kind "bad") or
   because its payload starts with AXX+UNKNOWN (kind "unknown").            *)
peer_replies(kind) ==
    /\ tpc = "recv"
    /\ CASE kind = "ok" -> tpc' = "ready" /\ texc' = ""
         [] kind = "bad" -> tpc' = "raised" /\ texc' = "ConstructError"
         [] kind = "unknown" ->
              tpc' = "raised" /\ texc' = "LinkplayCliGetRequestUnknownCommandException"
    /\ UNCHANGED <<attr_socket, sock, link, del_exc, commands_run, gpc>>
    /\ UNCHANGED not_channel_vars

\* the device resets the connection; a recv in progress raises
peer_resets ==
    /\ tpc \in {"ready", "recv"}
    /\ link = "up"
    /\ link' = "reset"
    /\ IF tpc = "recv"
       THEN tpc' = "raised" /\ texc' = "ConnectionResetError"
       ELSE UNCHANGED <<tpc, texc>>
    /\ UNCHANGED <<attr_socket, sock, del_exc, commands_run, gpc>>
    /\ UNCHANGED not_channel_vars

(* TcpUart.__del__, lines 31-34, when the last reference to the object goes:
   after __init__ raised, between two commands, or after run_command
   raised.  shutdown on a connection the peer has reset raises OSError
   (ENOTCONN) on some platforms and succeeds on others; when it raises,
   line 34 is not run and the socket object's own finalizer closes the
   descriptor.                                                              *)
TcpUart_del(shutdown_raises) ==
    /\ tpc \in {"init_raised", "ready", "raised"}
    /\ shutdown_raises => link = "reset"
    /\ tpc' = "deleted"
    /\ IF ~attr_socket
       THEN del_exc' = "AttributeError" /\ sock' = sock
       ELSE IF shutdown_raises
       THEN del_exc' = "OSError" /\ sock' = "closed_unshut"
       ELSE del_exc' = "" /\ sock' = "closed"
    /\ UNCHANGED <<attr_socket, link, texc, commands_run, gpc>>
    /\ UNCHANGED not_channel_vars

\* perform_get_request, line 49: requests.get is waiting for the server
perform_get_request_begins ==
    /\ gpc = "idle"
    /\ gpc' = "get"
    /\ UNCHANGED <<tpc, attr_socket, sock, link, texc, del_exc, commands_run>>
    /\ UNCHANGED not_channel_vars

\* the server answers or the connection fails: lines 50-68 run to their end
server_responds(failed) ==
    /\ gpc = "get"
    /\ gpc' = IF failed THEN "raised" ELSE "returned"
    /\ UNCHANGED <<tpc, attr_socket, sock, link, texc, del_exc, commands_run>>
    /\ UNCHANGED not_channel_vars

ChannelNext ==
    \/ TcpUart_init
    \/ peer_accepts
    \/ peer_refuses
    \/ \E call \in {"get", "connect", "recv"} : call_times_out(call)
    \/ \E build_fails \in BOOLEAN : run_command_sendall(build_fails)
    \/ \E kind \in {"ok", "bad", "unknown"} : peer_replies(kind)
    \/ peer_resets
    \/ \E shutdown_raises \in BOOLEAN : TcpUart_del(shutdown_raises)
    \/ perform_get_request_begins
    \/ \E failed \in BOOLEAN : server_responds(failed)

(* What is sure to happen: a timeout that was set expires.  Nothing obliges
   the peer to answer.                                                      *)
ChannelFairness ==
    WF_vars(\E call \in {"get", "connect", "recv"} : call_times_out(call))

(***************************************************************************)
(* upnp.py, player_status.py, utils.py: Upnp.get_player_status.  The       *)
(* TrackMetaData document is kept as the function from the names of the    *)
(* elements it holds to their text.                                        *)
(***************************************************************************)
\* 'Unknown'
UNKNOWN_NAME_STRING == <<85, 110, 107, 110, 111, 119, 110>>

\* the keys of PLAYBACK_MODE_NUMBER_TO_NAME: None, Apple Music, URL, Spotify,
\* AUX, Bluetooth
PLAYBACK_MODE_NUMBER_TO_NAME ==
    [n \in {-1, 1, 10, 31, 40, 41} |->
        CASE n = -1 -> <<78, 111, 110, 101>>
          [] n = 1 -> <<65, 112, 112, 108, 101, 32, 77, 117, 115, 105, 99>>
          [] n = 10 -> <<85, 82, 76>>
          [] n = 31 -> <<83, 112, 111, 116, 105, 102, 121>>
          [] n = 40 -> <<65, 85, 88>>
          [] n = 41 -> <<66, 108, 117, 101, 116, 111, 111, 116, 104>>]

\* the fields of the PlayerStatus dataclass
PlayerStatus_fields ==
    {"status_emoji", "total_length_string", "current_position_string",
     "playback_mode_string", "artist", "title", "album", "volume", "is_muted"}

\* the keyword arguments of the PlayerStatus(...) call of lines 89-100
PlayerStatus_keywords ==
    {"status_emoji", "total_length_string", "current_position_string",
     "playback_mode_string", "artist", "title", "album", "playlist", "volume",
     "is_muted"}

\* the play, pause and stop symbols
PLAY_SYMBOL == <<9654, 65039>>

PAUSE_SYMBOL == <<9208>>

STOP_SYMBOL == <<9209, 65039>>

\* 'play', 'PLAYING', 'pause', 'PAUSED_PLAYBACK'
Str_play == <<112, 108, 97, 121>>

Str_PLAYING == <<80, 76, 65, 89, 73, 78, 71>>

Str_pause == <<112, 97, 117, 115, 101>>

Str_PAUSED_PLAYBACK == <<80, 65, 85, 83, 69, 68, 95, 80, 76, 65, 89, 66, 65, 67, 75>>

\* a == b for two Python values: values of different types are not equal
py_eq(a_type, a, b_type, b) == a_type = b_type /\ a = b

\* utils.py lines 73-79: line 74 tests membership in a list, line 76
\* compares the str with a list
player_status_string_to_emoji(status) ==
    IF \E i \in 1..2 : py_eq("str", status, "str", <<Str_play, Str_PLAYING>>[i])
    THEN PLAY_SYMBOL
    ELSE IF py_eq("str", status, "list", <<Str_pause, Str_PAUSED_PLAYBACK>>)
    THEN PAUSE_SYMBOL
    ELSE STOP_SYMBOL

\* str.removeprefix
removeprefix(text, prefix) ==
    IF Len(text) >= Len(prefix) /\ SubSeq(text, 1, Len(prefix)) = prefix
    THEN SubSeq(text, Len(prefix) + 1, Len(text))
    ELSE text

\* removeprefix('00:0').removeprefix('00:')
trim_duration_string(duration_string) ==
    removeprefix(removeprefix(duration_string, <<48, 48, 58, 48>>), <<48, 48, 58>>)

\* int(text) for an optional minus sign and ASCII digits
int_signed(text) ==
    IF text # <<>> /\ text[1] = 45 THEN 0 - int(Tail(text)) ELSE int(text)

\* soup.find(name).get_text() if the element is there, else the default
text_or(track_metadata, name, default) ==
    IF name \in DOMAIN track_metadata THEN track_metadata[name] ELSE default

\* f"{playlist_name} by {playlist_owner}" if playlist_owner else playlist_name;
\* None is the empty sequence here, as is the empty str, and both are falsy
playlist_string_of(playlist_name, playlist_owner) ==
    IF playlist_owner # <<>>
    THEN playlist_name \o <<32, 98, 121, 32>> \o playlist_owner
    ELSE playlist_name

(* get_player_status, lines 64-100, for the GetInfoEx result info and the
   owner that _get_playlist_owner finds for the playlist.  The PlayerStatus
   call is given its keywords after they have all been evaluated.           *)
get_player_status(action_info, owner) ==
    LET track_metadata == action_info.TrackMetaData
        artist == text_or(track_metadata, "upnp:artist", UNKNOWN_NAME_STRING)
        title  == text_or(track_metadata, "dc:title", UNKNOWN_NAME_STRING)
        album  == text_or(track_metadata, "upnp:album", UNKNOWN_NAME_STRING)
        playlist_name  == text_or(track_metadata, "song:subid", <<>>)
        playlist_owner == IF playlist_name # <<>> THEN owner ELSE <<>>
        playlist_string == playlist_string_of(playlist_name, playlist_owner)
        playback_mode  == int_signed(action_info.PlayType)
        playback_mode_string ==
            IF playback_mode \in DOMAIN PLAYBACK_MODE_NUMBER_TO_NAME
            THEN PLAYBACK_MODE_NUMBER_TO_NAME[playback_mode]
            ELSE UNKNOWN_NAME_STRING
    IN  IF ~(PlayerStatus_keywords \subseteq PlayerStatus_fields)
        THEN Raise("TypeError")
        ELSE Return(
            [status_emoji |-> player_status_string_to_emoji(
                                  action_info.CurrentTransportState),
             total_length_string |-> trim_duration_string(action_info.TrackDuration),
             current_position_string |-> trim_duration_string(action_info.RelTime),
             playback_mode_string |-> playback_mode_string,
             artist |-> artist,
             title |-> title,
             album |-> album,
             volume |-> int(action_info.CurrentVolume),
             is_muted |-> FALSE])

\* the element names get_player_status looks for
Elements == {"upnp:artist", "dc:title", "upnp:album", "song:subid"}

\* '', 'A'
Texts == {<<>>, <<65>>}

TrackMetaDatas == UNION {[present -> Texts] : present \in SUBSET Elements}

\* 'play', 'pause', 'PLAYING', 'PAUSED_PLAYBACK', 'STOPPED'
TransportStates == {Str_play, Str_pause, Str_PLAYING, Str_PAUSED_PLAYBACK, <<83, 84, 79, 80, 80, 69, 68>>}

\* '31', '-1', '99'
PlayTypes == {<<51, 49>>, <<45, 49>>, <<57, 57>>}

\* '00:03:25', '01:02:03'
Durations == {<<48, 48, 58, 48, 51, 58, 50, 53>>, <<48, 49, 58, 48, 50, 58, 48, 51>>}

Infos ==
    [TrackMetaData : TrackMetaDatas, CurrentTransportState : TransportStates,
     PlayType : PlayTypes, TrackDuration : Durations, RelTime : {<<48, 48, 58, 48, 48, 58, 48, 55>>},
     CurrentVolume : {<<53, 48>>}]

UpnpIdle ==
    /\ upc = "idle"
    /\ player_status = NoResult

UpnpInit ==
    /\ info \in Infos
    /\ UpnpIdle

\* no GetInfoEx has been made
UpnpUnused ==
    /\ info = [TrackMetaData |-> <<>>, CurrentTransportState |-> <<>>,
               PlayType |-> <<>>, TrackDuration |-> <<>>, RelTime |-> <<>>,
               CurrentVolume |-> <<>>]
    /\ UpnpIdle

\* '', 'B'
Owners == {<<>>, <<66>>}

get_player_status_call(owner) ==
    /\ upc = "idle"
    /\ upc' = "done"
    /\ player_status' = get_player_status(info, owner)
    /\ UNCHANGED info
    /\ UNCHANGED not_upnp_vars

\* player_status_string_to_emoji(info['CurrentTransportState']) on its own
player_status_string_to_emoji_call ==
    /\ upc = "idle"
    /\ upc' = "emoji"
    /\ player_status' = Return(player_status_string_to_emoji(info.CurrentTransportState))
    /\ UNCHANGED info
    /\ UNCHANGED not_upnp_vars

UpnpNext ==
    \/ \E owner \in Owners : get_player_status_call(owner)
    \/ player_status_string_to_emoji_call

\* nothing of start-up and discovery is running
Unstarted ==
    /\ file = NoFile
    /\ net = [e \in Ips \X Endpoints |-> "down"]
    /\ found = <<>>
    /\ DiscIdle

Init == CodecInit /\ HttpInit /\ DiscInit /\ RegistryIdle /\ ChannelIdle /\ UpnpUnused

InitChannels ==
    CodecInit /\ HttpInit /\ Unstarted /\ RegistryIdle /\ ChannelIdle /\ UpnpUnused

InitRegistry == CodecInit /\ HttpInit /\ RegistryInit /\ ChannelIdle /\ UpnpUnused

InitUpnp == CodecInit /\ HttpInit /\ Unstarted /\ RegistryIdle /\ ChannelIdle /\ UpnpInit

Spec == Init /\ [][Next]_vars

SpecHttp == InitChannels /\ [][HttpNext]_vars

SpecCodec == InitChannels /\ [][CodecNext]_vars

SpecRegistry == InitRegistry /\ [][RegistryNext]_vars

SpecChannel == InitChannels /\ [][ChannelNext]_vars

SpecUpnp == InitUpnp /\ [][UpnpNext]_vars

SpecChannelLive == InitChannels /\ [][ChannelNext]_vars /\ ChannelFairness

(***************************************************************************)
(* Claims about start-up and discovery                                     *)
(***************************************************************************)

\* the (protocol, port) pair on which a host validates: the first configured
\* pair that answers with a status payload holding project and DeviceName,
\* every pair before it failing at request level; <<>> when there is none
ValidatingPair(hostname) ==
    IF ~IPv4Address_ok(hostname) THEN <<>>
    ELSE IF net[<<hostname, <<"http", 80>>>>] = "status" THEN <<"http", 80>>
    ELSE IF net[<<hostname, <<"http", 80>>>>] \in {"down", "notfound"}
            /\ net[<<hostname, <<"https", 4443>>>>] = "status"
         THEN <<"https", 4443>>
    ELSE <<>>

Ended == dpc \in {"ready", "raised"}

\* C7: discovery with one device.  When the cache is empty and the search
\* yields one candidate that validates on a configured pair, start-up ends
\* with a Device whose ip_address, protocol and port are those of the
\* answering probe, without raising.
C7_OneDeviceFound ==
    \A h \in Ips :
        (mode = "cli" /\ Ended /\ configuration.active_device = NoDevice
         /\ found = <<h>> /\ ValidatingPair(h) # <<>>)
            => /\ dpc = "ready"
               /\ device.ip_address = h
               /\ device.protocol = ValidatingPair(h)[1]
               /\ device.port = ValidatingPair(h)[2]

\* C8: outcome by number of validated candidates.  When no candidate
\* validates, discovery ends with LinkplayCliDeviceNotFoundException, no
\* Device is returned and the registry is not written; when two candidates
\* validate, the list handed to the caller holds both and the active device
\* is the one the user's input names, or none.
C8_OutcomeByCount ==
    (Ended /\ searched) =>
        /\ (\A i \in 1..Len(found) : ValidatingPair(found[i]) = <<>>)
              => /\ dpc = "raised"
                 /\ exc = "LinkplayCliDeviceNotFoundException"
                 /\ device = NoDevice
                 /\ file = file_before
        /\ (Len(found) = 2 /\ \A i \in 1..2 : ValidatingPair(found[i]) # <<>>)
              => /\ Len(linkplay_devices) = 2
                 /\ \A i \in 1..2 :
                        \E j \in 1..2 : linkplay_devices[j].ip_address = found[i]
                 /\ IF dpc = "ready"
                    THEN /\ isdigit(user_input)
                         /\ file = FileOf(Configuration(
                                       linkplay_devices,
                                       linkplay_devices[int(user_input) + 1]))
                    ELSE file = file_before

\* the answer of the endpoint the cached active device names
CachedAnswer ==
    net[<<configuration.active_device.ip_address,
          <<configuration.active_device.protocol, configuration.active_device.port>>>>]

\* C9: cache hit.  When the registry has an active device and the one status
\* probe over its stored address, port and protocol succeeds, that device
\* becomes the active device and no multicast search is started; the probe
\* is the only request of the start-up.
C9_CacheHit ==
    (mode = "cli" /\ dpc # "start" /\ configuration.active_device # NoDevice
     /\ CachedAnswer \in {"status", "partial"})
        => /\ dpc = "ready"
           /\ device = configuration.active_device
           /\ ~searched
           /\ Len(probes) = 1

C9_Witness ==
    /\ mode = "cli" /\ dpc = "ready"
    /\ configuration.active_device = DeviceB
    /\ device = DeviceB
    /\ ~searched
    /\ probes = << <<DeviceB.ip_address, "https", 4443>> >>

\* C10: cache fallback.  When the registry's active device no longer answers
\* the status probe (connection error or timeout), start-up runs discovery,
\* and a device it ends up with is one that discovery returned.
C10_CacheFallback ==
    (mode = "cli" /\ dpc # "start" /\ configuration.active_device # NoDevice
     /\ CachedAnswer = "down")
        => /\ searched
           /\ dpc = "ready" =>
                 \E i \in 1..Len(linkplay_devices) : device = linkplay_devices[i]

C10_Witness ==
    /\ mode = "cli" /\ Ended
    /\ configuration.active_device = DeviceA
    /\ CachedAnswer = "down"
    /\ searched
    /\ Len(probes) >= 2
    /\ device # DeviceA

\* C14: re-validation failure of any kind falls through to discovery.  When
\* the registry's active device answers the status probe with a body that
\* is not JSON or with 'unknown command', start-up runs discovery, as for an
\* unreachable device, and does not end with the probe's exception.
C14_RevalidationFallsThrough ==
    (mode = "cli" /\ dpc # "start" /\ configuration.active_device # NoDevice
     /\ CachedAnswer \in {"text", "unknown"})
        => /\ searched
           /\ dpc = "raised" => exc = "LinkplayCliDeviceNotFoundException"

\* what the endpoint of a host answers
AnswerOf(hostname, protocol, port) == net[<<hostname, <<protocol, port>>>>]

\* the probes the claimed order issues for one candidate: each pair in turn,
\* up to and including the first that answers with a valid status payload
RECURSIVE ProbesInOrder(_, _)
ProbesInOrder(hostname, pairs) ==
    IF pairs = <<>> THEN <<>>
    ELSE <<<<hostname, pairs[1][1], pairs[1][2]>>>>
         \o IF AnswerOf(hostname, pairs[1][1], pairs[1][2]) = "status" THEN <<>>
            ELSE ProbesInOrder(hostname, Tail(pairs))

\* config.http_ports with 'http', then config.tls_ports with 'https'
ConfiguredPairs ==
    [i \in 1..Len(http_ports) |-> <<"http", http_ports[i]>>]
    \o [i \in 1..Len(tls_ports) |-> <<"https", tls_ports[i]>>]

RECURSIVE ProbesForAll(_)
ProbesForAll(hostnames) ==
    IF hostnames = <<>> THEN <<>>
    ELSE (IF IPv4Address_ok(hostnames[1])
          THEN ProbesInOrder(hostnames[1], ConfiguredPairs) ELSE <<>>)
         \o ProbesForAll(Tail(hostnames))

\* the (address, protocol, port) of the descriptors the claimed order yields
RECURSIVE DescriptorsForAll(_)
DescriptorsForAll(hostnames) ==
    IF hostnames = <<>> THEN <<>>
    ELSE LET issued == IF IPv4Address_ok(hostnames[1])
                       THEN ProbesInOrder(hostnames[1], ConfiguredPairs) ELSE <<>>
             last   == issued[Len(issued)]
         IN  (IF issued # <<>> /\ AnswerOf(last[1], last[2], last[3]) = "status"
              THEN <<last>> ELSE <<>>)
             \o DescriptorsForAll(Tail(hostnames))

\* C15: probe order per candidate.  Once a search has ended, the probes it
\* issued are, candidate by candidate, the http pairs in list order and then
\* the https pairs, up to the first pair that succeeds and no further; each
\* descriptor carries the pair that succeeded, and a candidate whose pairs
\* all fail has none.
C15_ProbeOrder ==
    (mode = "rediscover" /\ Ended)
        => /\ probes = ProbesForAll(found)
           /\ [i \in 1..Len(linkplay_devices) |->
                  <<linkplay_devices[i].ip_address, linkplay_devices[i].protocol,
                    linkplay_devices[i].port>>] = DescriptorsForAll(found)

\* C18: a failing candidate never affects the others.  Once a search has
\* ended, a candidate whose probes all failed (unreachable, non-200,
\* 'unknown command', not JSON, payload without project or DeviceName, host
\* that is no IPv4 address) is not in the list, every candidate that
\* validates is, and the search did not end with a candidate's exception.
C18_FailureIsolated ==
    (Ended /\ searched)
        => /\ \A i \in 1..Len(found) :
                  IF ValidatingPair(found[i]) = <<>>
                  THEN \A j \in 1..Len(linkplay_devices) :
                           linkplay_devices[j].ip_address # found[i]
                  ELSE \E j \in 1..Len(linkplay_devices) :
                           linkplay_devices[j].ip_address = found[i]
           /\ exc \in {"", "LinkplayCliDeviceNotFoundException"}

(***************************************************************************)
(* Claims about the registry                                               *)
(***************************************************************************)

\* the file holds a complete record this user can read
ValidRecord(f) ==
    f.exists /\ f.readable /\ pickle_load(f.data).kind = "return"

\* C11: registry load never throws.  Whenever the registry file is not a
\* valid record (missing, unreadable, truncated, corrupted),
\* load_configuration_from_file returns the empty configuration and raises
\* nothing.
C11_LoadNeverThrows ==
    (rpc = "loaded" /\ ~ValidRecord(file))
        => rresult = Return(Configuration(<<>>, NoDevice))

\* C12: registry save is atomic.  When the process is killed at any point
\* inside save_configuration_to_file, a registry file that held a valid
\* record holds either that record, complete, or the new record, complete.
C12_AtomicSave ==
    (rpc = "killed" /\ ValidRecord(file_at_call))
        => \/ file = file_at_call
           \/ file.data = BeingSaved

\* C16: persistence precedes return.  Whenever
\* prompt_user_to_choose_active_device returns a Device, the registry file
\* holds exactly the record of the devices it was given with that Device as
\* the active one, whatever the file held before.
C16_PersistBeforeReturn ==
    rpc = "returned"
        => /\ rresult.kind = "return"
           /\ file.exists
           /\ pickle_load(file.data)
                  = Return(Configuration(prompt_devices, rresult.value))

C16_Witness ==
    /\ rpc = "returned"
    /\ file_at_call = FileOf(Configuration(<<DeviceA>>, DeviceA))
    /\ prompt_devices = <<DeviceA, DeviceB>>
    /\ rresult = Return(DeviceB)
    /\ file = FileOf(Configuration(<<DeviceA, DeviceB>>, DeviceB))

\* C20: registry invariant.  After any sequence of choices, saves and
\* restarts, whenever the registry file holds a complete record with an
\* active device, that device is an element of the record's devices list.
C20_ActiveInDevices ==
    ValidRecord(file) =>
        LET stored == pickle_load(file.data).value
        IN  stored.active_device # NoDevice
                => \E i \in 1..Len(stored.devices) :
                       stored.devices[i] = stored.active_device

C20_Witness ==
    /\ rpc = "idle"
    /\ file_at_call = FileOf(Configuration(<<DeviceB, DeviceA>>, DeviceA))
    /\ file = file_at_call

\* C21: a rejected or failed choice leaves the registry unchanged.  When
\* prompt_user_to_choose_active_device ends without reaching the save (it
\* was given no devices, or several and a line that is no decimal index
\* into them), it has raised LinkplayCliDeviceNotFoundException and the
\* registry file is what it was before the call.
C21_RejectedChoice ==
    (rpc = "raised" /\ rresult # Raise("OSError"))
        => /\ rresult = Raise("LinkplayCliDeviceNotFoundException")
           /\ file = file_at_call

(***************************************************************************)
(* Claims about the lifetime of the binary channel and about timeouts      *)
(***************************************************************************)

\* C13: binary channel socket release.  Once a TcpUart has been torn down,
\* on whichever path (after a normal command, after run_command raised,
\* after the connection attempt of the constructor failed), its socket, if
\* one was opened, has been shut down and closed, and the teardown raised
\* nothing.
C13_SocketReleased ==
    tpc = "deleted"
        => /\ del_exc = ""
           /\ sock \in {"none", "closed"}

\* C17: every network operation is bounded by a timeout.  An HTTP GET, a
\* connection attempt of the binary channel and a run_command waiting for
\* its reply each come to an end, even if the peer never answers.
C17_EveryCallReturns ==
    /\ (gpc = "get") ~> (gpc # "get")
    /\ (tpc = "connect") ~> (tpc # "connect")
    /\ (tpc = "recv") ~> (tpc # "recv")

(***************************************************************************)
(* Claims about the UPnP channel                                           *)
(***************************************************************************)

\* C19: UPnP status tolerates absent metadata.  Whichever of the artist,
\* title and album elements are missing from TrackMetaData,
\* get_player_status returns a PlayerStatus in which each missing one is
\* 'Unknown' and each present one is the element's text.
C19_AbsentMetadata ==
    upc = "done"
        => /\ player_status.kind = "return"
           /\ \A field \in {"artist", "title", "album"} :
                  LET name == CASE field = "artist" -> "upnp:artist"
                                [] field = "title" -> "dc:title"
                                [] field = "album" -> "upnp:album"
                      got  == CASE field = "artist" -> player_status.value.artist
                                [] field = "title" -> player_status.value.title
                                [] field = "album" -> player_status.value.album
                  IN  got = IF name \in DOMAIN info.TrackMetaData
                            THEN info.TrackMetaData[name]
                            ELSE UNKNOWN_NAME_STRING

\* C22: player state to symbol mapping.  player_status_string_to_emoji
\* returns the play symbol for 'play' and 'PLAYING', the pause symbol for
\* 'pause' and 'PAUSED_PLAYBACK' and the stop symbol for any other string.
C22_StateToSymbol ==
    upc = "emoji"
        => player_status.value =
               IF info.CurrentTransportState \in {Str_play, Str_PLAYING}
               THEN PLAY_SYMBOL
               ELSE IF info.CurrentTransportState \in {Str_pause, Str_PAUSED_PLAYBACK}
               THEN PAUSE_SYMBOL
               ELSE STOP_SYMBOL

(***************************************************************************)
(* Claims about the HTTP channel                                           *)
(***************************************************************************)

\* two characters that are equal or the two cases of one ASCII letter
SameLetter(x, y) ==
    \/ x = y
    \/ (x \in 65..90 /\ y = x + 32)
    \/ (y \in 65..90 /\ x = y + 32)

IsUnknownCommandText(text) ==
    /\ Len(text) = Len(UNKNOWN_COMMAND_STRING)
    /\ \A i \in 1..Len(text) : SameLetter(text[i], UNKNOWN_COMMAND_STRING[i])

\* C5: unknown-command classification.  Whenever a response with status 200
\* has a body that is "unknown command" in some mix of upper and lower case,
\* perform_get_request raises LinkplayCliGetRequestUnknownCommandException,
\* whatever expect_json and expect_bytes are.
C5_UnknownCommand ==
    (hpc = "done" /\ response.kind = "response" /\ response.status_code = 200
     /\ IsUnknownCommandText(response.text))
        => hresult = Raise("LinkplayCliGetRequestUnknownCommandException")

\* "unKnown commanD" with expect_json set
C5_Witness ==
    /\ hpc = "done" /\ response.kind = "response" /\ response.status_code = 200
    /\ response.text = WithUpper(UNKNOWN_COMMAND_STRING, {3, 15})
    /\ expect_json
    /\ hresult = Raise("LinkplayCliGetRequestUnknownCommandException")

\* the value perform_get_request is to return for a body that is the response
ExpectedValue ==
    IF expect_json
    THEN IF response.text = StatusBody
         THEN Value("json", <<<<Key_project, <<88>>>>, <<Key_DeviceName, <<89>>>>>>)
         ELSE IF response.text = PartialStatusBody
         THEN Value("json", <<<<Key_project, <<88>>>>>>)
         ELSE Value("json", <<>>)
    ELSE IF expect_bytes THEN Value("bytes", response.text)
    ELSE Value("str", response.text)

\* the bodies of Bodies that are JSON documents
IsJsonBody(text) == text \in {StatusBody, PartialStatusBody, <<123, 125>>}

\* C6 as stated: the request-failed exception is raised exactly when the
\* request fails at network level or the status is outside 2xx, and every
\* 2xx response whose body is not "unknown command" returns the body (text,
\* or parsed JSON when expect_json).
C6_Original ==
    (hpc = "done") =>
        /\ (hresult = Raise("LinkplayCliGetRequestFailedException"))
             <=> (response.kind = "RequestException"
                  \/ response.status_code \notin 200..299)
        /\ (response.kind = "response" /\ response.status_code \in 200..299
            /\ ~IsUnknownCommandText(response.text))
               => hresult = Return(ExpectedValue)

\* C6 as amended: the request-failed exception is raised exactly when the
\* request fails at network level or the status is not 200; a 200 response
\* whose body is not "unknown command" (in any case) returns the text, the
\* content when expect_bytes without expect_json, the parsed document when
\* expect_json and the body is JSON, and raises JSONDecodeError when
\* expect_json and the body is not JSON.
C6_StatusClassification ==
    (hpc = "done") =>
        /\ (hresult = Raise("LinkplayCliGetRequestFailedException"))
             <=> (response.kind = "RequestException" \/ response.status_code # 200)
        /\ (response.kind = "response" /\ response.status_code = 200
            /\ ~IsUnknownCommandText(response.text))
               => IF expect_json /\ ~IsJsonBody(response.text)
                  THEN hresult = Raise("JSONDecodeError")
                  ELSE hresult = Return(ExpectedValue)

C6_Witness ==
    /\ hpc = "done" /\ response.kind = "response" /\ response.status_code = 200
    /\ response.text = StatusBody
    /\ expect_json
    /\ hresult = Return(Value("json", <<<<Key_project, <<88>>>>, <<Key_DeviceName, <<89>>>>>>))

(***************************************************************************)
(* Claims about the codec                                                  *)
(***************************************************************************)

\* C1: round trip.  Whenever the frame built from the UTF-8 bytes of the
\* command comes back whole and unchanged, parsing it succeeds and the parsed
\* payload is the UTF-8 encoding of the command.
C1_RoundTrip ==
    (cpc = "done" /\ reply_kind = "echo" /\ received = wire)
        => (parsed.status = "ok" /\ parsed.payload = Utf8(command))

C1_Witness ==
    /\ cpc = "done" /\ reply_kind = "echo" /\ received = wire
    /\ command = FromSeq(<<8364, 75>>)
    /\ BLen(parsed.payload) = 4

\* C2: integrity.  Whenever the frame comes back whole with exactly one
\* payload byte replaced by a different value (header untouched), parsing
\* fails with ChecksumError and run_command raises it; no payload is returned.
C2_Integrity ==
    (cpc = "done" /\ reply_kind = "flip" /\ received = wire)
        => (parsed.status = "ChecksumError" /\ result = Raise("ChecksumError"))

C2_Witness ==
    /\ cpc = "done" /\ reply_kind = "flip" /\ received = wire
    /\ BLen(wire) > HeaderSize + 1

\* C3: framing.  Whenever recv returns fewer bytes than the frame the peer
\* sent, parsing fails with StreamError and run_command raises it; no payload
\* is returned.
C3_Framing ==
    (cpc = "done" /\ reply_kind # "none" /\ BLen(received) < BLen(wire))
        => (parsed.status = "StreamError" /\ result = Raise("StreamError"))

C3_Witness ==
    /\ cpc = "done"
    /\ BLen(wire) > NUMBER_OF_RESPONSE_BYTES_TO_READ
    /\ BLen(received) = NUMBER_OF_RESPONSE_BYTES_TO_READ
    /\ result = Raise("StreamError")

\* the low 32 bits of a two-limb number, least significant byte first
Low32LittleEndian(w) ==
    FromSeq(<<w[2] % 256, w[2] \div 256, (w[1] % Base) % 256, (w[1] % Base) \div 256>>)

\* C4: frame invariant on encode.  For every command, build succeeds and
\* emits magic, the payload's length (little-endian), the payload's byte sum
\* reduced mod 2^32 (little-endian), eight zero bytes and the payload; the
\* payload b'OK' gets checksum 0x9A and length 2.
C4_FrameInvariant ==
    (cpc # "idle") =>
        /\ built.status = "ok"
        /\ built.data =
             BCat(TCP_UART_MAGIC,
             BCat(Low32LittleEndian(Wide(BLen(Utf8(command)))),
             BCat(Low32LittleEndian(sum(Utf8(command))),
             BCat(<< <<0, 8>> >>, Utf8(command)))))
        /\ (command = FromSeq(<<79, 75>>) =>
                /\ BSlice(built.data, 4, 4) = FromSeq(<<2, 0, 0, 0>>)
                /\ BSlice(built.data, 8, 4) = FromSeq(<<154, 0, 0, 0>>))

====
